---- MODULE Spec2Model ----
(***************************************************************************)
(* Model of simulator_server.py: a Flask handler and the pygame keyboard   *)
(* write the shared robot_command; simulate() reads it once per tick and   *)
(* turns it into velocity, position and trail updates.                     *)
(*                                                                         *)
(* Numbers.  robot_velocity and robot_pos are Python floats.  They are     *)
(* represented here in fixed point: an integer n stands for n / Unit.      *)
(* Sums and comparisons are exact; the two products of the code            *)
(* (v * 0.92 and abs(v) * 0.7) round to the nearest multiple of 1 / Unit,  *)
(* as the float product rounds to the nearest double.                      *)
(* Python list index i is index i + 1 of the sequences below.              *)
(***************************************************************************)
EXTENDS Integers, Sequences, FiniteSets

\* robot_command .. trail_points are the program's state (events is the
\* pygame event queue); used, ticks, stopRun and scen only observe the run:
\* inputs produced, ticks run, consecutive Stop ticks, scenario progress.
VARIABLES robot_command, events, running, current_cmd,
          robot_velocity, robot_pos, trail_points,
          used, ticks, stopRun, scen

\* The threads, statement by statement (specification SpecLock):
\* command_lock is the set of threads holding the lock, lpc the position of
\* simulate() in its loop, fetched the events pygame.event.get() returned
\* and the loop has not handled yet, hs[h] the request thread h (its
\* position, its route, its local cmd, the command its status page read).
\* completed and reads observe the run: the value stored by the last write
\* whose critical section has ended, and the reads of robot_command the loop
\* made in the current tick.
VARIABLES command_lock, lpc, fetched, hs, completed, reads

lockvars == <<command_lock, lpc, fetched, hs, completed, reads>>

vars == <<robot_command, events, running, current_cmd,
          robot_velocity, robot_pos, trail_points, used, ticks,
          stopRun, scen, lockvars>>

(* ---- bounds of the model ---- *)
\* inputs (network requests and window events) the environment produces at
\* any time of the run
MaxInputs == 2
\* further inputs it produces while the loop has run fewer than
\* MaxBurstTicks ticks
MaxEarly == 1
MaxBurstTicks == 8
\* the counter of consecutive Stop ticks saturates here
MaxStopRun == 45
\* SpecLock: request threads, window events and loop iterations
MaxHandlers == 2
MaxLockEvents == 1
MaxLockTicks == 2

(* ---- program constants ---- *)
Unit == 1000
WIDTH == 800
HEIGHT == 600
ROBOT_SIZE == 40
robot_speed == 4
max_trail == 150

max_speed == robot_speed * Unit
acceleration == (6 * Unit) \div 10
snap == Unit \div 10
epsilon == Unit \div 2
ArenaMin == (ROBOT_SIZE \div 2) * Unit
ArenaMax(i) == IF i = 1 THEN (WIDTH - ROBOT_SIZE \div 2) * Unit
                        ELSE (HEIGHT - ROBOT_SIZE \div 2) * Unit

Abs(n) == IF n < 0 THEN -n ELSE n
Min(a, b) == IF a < b THEN a ELSE b
Max(a, b) == IF a > b THEN a ELSE b

\* v * (num / den) rounded to the nearest representable value
MulRound(v, num, den) ==
    LET m == (2 * Abs(v) * num + den) \div (2 * den)
    IN  IF v < 0 THEN -m ELSE m

Friction(v) == MulRound(v, 92, 100)
Restitution(v) == MulRound(v, 7, 10)

(* ---- the environment's inputs ---- *)
NoToken == "<none>"
Valid == {"F", "B", "L", "R", "S"}
Tokens == Valid \cup {"X", NoToken}
Keys == {"K_w", "K_s", "K_a", "K_d", "K_SPACE", "K_ESCAPE"}
Events == Keys \cup {"QUIT"}
Unset == "<unset>"

\* request.args.get('cmd', 'S')
ArgsGet(tok) == IF tok = NoToken THEN "S" ELSE tok

\* the command a KEYDOWN event stores; other keys store nothing
KeyCommand(key, cmd) ==
    CASE key = "K_w" -> "F"
      [] key = "K_s" -> "B"
      [] key = "K_a" -> "L"
      [] key = "K_d" -> "R"
      [] key = "K_SPACE" -> "S"
      [] OTHER -> cmd

\* for event in pygame.event.get(): ... over the whole queue, in order
RECURSIVE Drain(_, _, _)
Drain(q, cmd, run) ==
    IF q = <<>> THEN [cmd |-> cmd, run |-> run]
    ELSE IF Head(q) = "QUIT" THEN Drain(Tail(q), cmd, FALSE)
    ELSE Drain(Tail(q), KeyCommand(Head(q), cmd), run)

(* ---- the motion step ---- *)
\* TargetVel with Forward and Backward exchanged
TargetVelSwapped(cmd) ==
    CASE cmd = "F" -> <<0, max_speed>>
      [] cmd = "B" -> <<0, -max_speed>>
      [] cmd = "L" -> <<-max_speed, 0>>
      [] cmd = "R" -> <<max_speed, 0>>
      [] OTHER -> <<0, 0>>

\* TargetVel treating every command it does not know as Forward
TargetVelUnknownForward(cmd) ==
    CASE cmd = "B" -> <<0, max_speed>>
      [] cmd = "L" -> <<-max_speed, 0>>
      [] cmd = "R" -> <<max_speed, 0>>
      [] cmd = "S" -> <<0, 0>>
      [] OTHER -> <<0, -max_speed>>

TargetVel(cmd) ==
    CASE cmd = "F" -> <<0, -max_speed>>
      [] cmd = "B" -> <<0, max_speed>>
      [] cmd = "L" -> <<-max_speed, 0>>
      [] cmd = "R" -> <<max_speed, 0>>
      [] OTHER -> <<0, 0>>

\* StepVelocity leaving an axis without target as it is
StepVelocityNoDecay(v, t) ==
    IF t # 0
    THEN IF v < t THEN Min(t, v + acceleration)
         ELSE IF v > t THEN Max(t, v - acceleration)
         ELSE v
    ELSE v

\* StepVelocity with a friction coefficient of 0.8
StepVelocityStrongFriction(v, t) ==
    IF t # 0
    THEN IF v < t THEN Min(t, v + acceleration)
         ELSE IF v > t THEN Max(t, v - acceleration)
         ELSE v
    ELSE LET f == MulRound(v, 8, 10)
         IN  IF Abs(f) < snap THEN 0 ELSE f

\* StepVelocity slowing down whenever the velocity is not below the target
StepVelocityElse(v, t) ==
    IF t # 0
    THEN IF v < t THEN Min(t, v + acceleration)
         ELSE v - acceleration
    ELSE LET f == Friction(v)
         IN  IF Abs(f) < snap THEN 0 ELSE f

\* StepVelocity without the snap to zero
StepVelocityNoSnap(v, t) ==
    IF t # 0
    THEN IF v < t THEN Min(t, v + acceleration)
         ELSE IF v > t THEN Max(t, v - acceleration)
         ELSE v
    ELSE Friction(v)

\* StepVelocity without the min/max clamp at the target
StepVelocityNoClamp(v, t) ==
    IF t # 0
    THEN IF v < t THEN v + acceleration
         ELSE IF v > t THEN v - acceleration
         ELSE v
    ELSE LET f == Friction(v)
         IN  IF Abs(f) < snap THEN 0 ELSE f

\* one axis of "Smooth velocity changes"
StepVelocity(v, t) ==
    IF t # 0
    THEN IF v < t THEN Min(t, v + acceleration)
         ELSE IF v > t THEN Max(t, v - acceleration)
         ELSE v
    ELSE LET f == Friction(v)
         IN  IF Abs(f) < snap THEN 0 ELSE f

\* Collide reflecting only beyond an edge, not on it
CollideStrict(p, v, lo, hi) ==
    IF p < lo THEN <<lo, Restitution(Abs(v))>>
    ELSE IF p > hi THEN <<hi, -Restitution(Abs(v))>>
    ELSE <<p, v>>

\* Collide scaling the velocity without turning it around
CollideNoFlip(p, v, lo, hi) ==
    IF p <= lo THEN <<lo, Restitution(v)>>
    ELSE IF p >= hi THEN <<hi, Restitution(v)>>
    ELSE <<p, v>>

\* Collide applying the restitution factor twice
CollideTwice(p, v, lo, hi) ==
    IF p <= lo THEN <<lo, Restitution(Restitution(Abs(v)))>>
    ELSE IF p >= hi THEN <<hi, -Restitution(Restitution(Abs(v)))>>
    ELSE <<p, v>>

\* Collide reflecting the velocity but leaving the position where it is
CollideNoClamp(p, v, lo, hi) ==
    IF p <= lo THEN <<p, Restitution(Abs(v))>>
    ELSE IF p >= hi THEN <<p, -Restitution(Abs(v))>>
    ELSE <<p, v>>

\* one axis of "Boundary collision with bounce": <<position, velocity>>
Collide(p, v, lo, hi) ==
    IF p <= lo THEN <<lo, Restitution(Abs(v))>>
    ELSE IF p >= hi THEN <<hi, -Restitution(Abs(v))>>
    ELSE <<p, v>>

\* RecordTrail appending the position at the end of the tick
RecordTrailNew(trail, old, new) ==
    IF Abs(new[1] - old[1]) > epsilon \/ Abs(new[2] - old[2]) > epsilon
    THEN LET t == Append(trail, new)
         IN  IF Len(t) > max_trail THEN Tail(t) ELSE t
    ELSE trail

\* RecordTrail that never evicts
RecordTrailNoPop(trail, old, new) ==
    IF Abs(new[1] - old[1]) > epsilon \/ Abs(new[2] - old[2]) > epsilon
    THEN Append(trail, old)
    ELSE trail

\* "Add to trail"
RecordTrail(trail, old, new) ==
    IF Abs(new[1] - old[1]) > epsilon \/ Abs(new[2] - old[2]) > epsilon
    THEN LET t == Append(trail, old)
         IN  IF Len(t) > max_trail THEN Tail(t) ELSE t
    ELSE trail

(* ---- observers of the run, used to state properties and bounds ---- *)
\* ticks run so far, counted up to MaxBurstTicks
NextTicks(n) == Min(n + 1, MaxBurstTicks)

\* consecutive ticks, up to now, that read the command Stop
NextStopRun(n, cmd) == IF cmd = "S" THEN Min(n + 1, MaxStopRun) ELSE 0

\* how far the run so far follows the scenario "Stop, Forward for 10 ticks,
\* Stop ...": <<"start", 0>> while only Stop has been read, <<"fwd", k>> after
\* k Forward ticks, <<"stop", k>> after the 10 Forward ticks and k Stop ticks,
\* <<"off", 0>> once the run has left the scenario
NextScen(s, cmd) ==
    CASE s[1] = "start" /\ cmd = "S" -> s
      [] s[1] = "start" /\ cmd = "F" -> <<"fwd", 1>>
      [] s[1] = "fwd" /\ cmd = "F" /\ s[2] < 10 -> <<"fwd", s[2] + 1>>
      [] s[1] = "fwd" /\ cmd = "S" /\ s[2] = 10 -> <<"stop", 1>>
      [] s[1] = "stop" /\ cmd = "S" -> <<"stop", Min(s[2] + 1, MaxStopRun)>>
      [] OTHER -> <<"off", 0>>

\* the environment may produce one more input
InputAllowed ==
    \/ used < MaxInputs
    \/ used < MaxInputs + MaxEarly /\ ticks < MaxBurstTicks

(* ---- threads and the lock ---- *)
\* the main thread, which runs simulate(); request threads are 1, 2, ...
Sim == 0
Handlers == 1..MaxHandlers
IdleHandler == [pc |-> "idle", kind |-> "none", cmd |-> Unset, seen |-> Unset]

\* acquire that never waits
LockFreeAlways(l) == TRUE

\* "with command_lock:" enters only when no thread holds the lock
LockFree(l) == l = {}

\* leaving the with block without releasing
ReleasedKept(l, t) == l

\* leaving the with block releases the lock
Released(l, t) == l \ {t}

\* a loop that ignores running
LoopContinuesAlways(run) == TRUE

\* "while running:"
LoopContinues(run) == run

\* the motion step reading the shared robot_command again
StepCommandShared(cur, shared) == shared

\* the command the motion step works from: the local current_cmd
StepCommand(cur, shared) == cur

(* ---- state machine ---- *)
Init ==
    /\ robot_command = "S"
    /\ events = <<>>
    /\ running = TRUE
    /\ current_cmd = Unset
    /\ robot_velocity = <<0, 0>>
    /\ robot_pos = <<(WIDTH \div 2) * Unit, (HEIGHT \div 2) * Unit>>
    /\ trail_points = <<>>
    /\ used = 0
    /\ ticks = 0
    /\ stopRun = 0
    /\ scen = <<"start", 0>>
    /\ command_lock = {}
    /\ lpc = "top"
    /\ fetched = <<>>
    /\ hs = [h \in Handlers |-> IdleHandler]
    /\ completed = "S"
    /\ reads = 0

\* GET /command?cmd=tok : receive_command()
ReceiveCommand(tok) ==
    /\ InputAllowed
    /\ robot_command' = ArgsGet(tok)
    /\ used' = used + 1
    /\ UNCHANGED <<events, running, current_cmd, robot_velocity, robot_pos,
                   trail_points, ticks, stopRun, scen, lockvars>>

\* the window system queues an event for pygame.event.get()
PostEvent(e) ==
    /\ running
    /\ InputAllowed
    /\ events' = Append(events, e)
    /\ used' = used + 1
    /\ UNCHANGED <<robot_command, running, current_cmd, robot_velocity,
                   robot_pos, trail_points, ticks, stopRun, scen, lockvars>>

\* target velocity, velocity, position, collision and trail of one tick
\* that works from the command cur
Motion(cur) ==
    LET tv   == TargetVel(cur)
        v1   == [i \in 1..2 |-> StepVelocity(robot_velocity[i], tv[i])]
        old  == robot_pos
        p1   == [i \in 1..2 |-> old[i] + v1[i]]
        c    == [i \in 1..2 |-> Collide(p1[i], v1[i], ArenaMin, ArenaMax(i))]
        new  == [i \in 1..2 |-> c[i][1]]
    IN  /\ robot_velocity' = [i \in 1..2 |-> c[i][2]]
        /\ robot_pos' = new
        /\ trail_points' = RecordTrail(trail_points, old, new)
        /\ ticks' = NextTicks(ticks)
        /\ stopRun' = NextStopRun(stopRun, cur)
        /\ scen' = NextScen(scen, cur)

\* one iteration of "while running:" in simulate()
Tick ==
    /\ running
    /\ LET d == Drain(events, robot_command, running)
       IN  /\ events' = <<>>
           /\ robot_command' = d.cmd
           /\ running' = d.run
           /\ current_cmd' = d.cmd
           /\ Motion(d.cmd)
    /\ UNCHANGED <<used, lockvars>>

Next ==
    \/ \E tok \in Tokens : ReceiveCommand(tok)
    \/ \E e \in Events : PostEvent(e)
    \/ Tick

Spec == Init /\ [][Next]_vars

(* ---- the same program, statement by statement ---- *)
physvars == <<robot_velocity, robot_pos, trail_points, ticks, stopRun, scen>>

\* a request for /command?cmd=tok reaches thread h: line 31
RequestCommand(h, tok) ==
    /\ hs[h].pc = "idle"
    /\ hs' = [hs EXCEPT ![h] = [pc |-> "acquire", kind |-> "command",
                                cmd |-> ArgsGet(tok), seen |-> Unset]]
    /\ UNCHANGED <<robot_command, events, running, current_cmd, physvars,
                   used, command_lock, lpc, fetched, completed, reads>>

\* a request for / reaches thread h
RequestStatus(h) ==
    /\ hs[h].pc = "idle"
    /\ hs' = [hs EXCEPT ![h] = [pc |-> "acquire", kind |-> "status",
                                cmd |-> Unset, seen |-> Unset]]
    /\ UNCHANGED <<robot_command, events, running, current_cmd, physvars,
                   used, command_lock, lpc, fetched, completed, reads>>

\* "with command_lock:" of receive_command (line 33) and status (line 43)
HandlerAcquire(h) ==
    /\ hs[h].pc = "acquire"
    /\ LockFree(command_lock)
    /\ command_lock' = command_lock \cup {h}
    /\ hs' = [hs EXCEPT ![h].pc = "locked"]
    /\ UNCHANGED <<robot_command, events, running, current_cmd, physvars,
                   used, lpc, fetched, completed, reads>>

\* robot_command = cmd
HandlerWrite(h) ==
    /\ hs[h].pc = "locked"
    /\ hs[h].kind = "command"
    /\ robot_command' = hs[h].cmd
    /\ hs' = [hs EXCEPT ![h].pc = "release"]
    /\ UNCHANGED <<events, running, current_cmd, physvars, used,
                   command_lock, lpc, fetched, completed, reads>>

\* current_cmd = robot_command, in status()
HandlerRead(h) ==
    /\ hs[h].pc = "locked"
    /\ hs[h].kind = "status"
    /\ hs' = [hs EXCEPT ![h].pc = "release", ![h].seen = robot_command]
    /\ UNCHANGED <<robot_command, events, running, current_cmd, physvars,
                   used, command_lock, lpc, fetched, completed, reads>>

\* the end of the with block
HandlerRelease(h) ==
    /\ hs[h].pc = "release"
    /\ command_lock' = Released(command_lock, h)
    /\ completed' = IF hs[h].kind = "command" THEN hs[h].cmd ELSE completed
    /\ hs' = [hs EXCEPT ![h].pc = "respond"]
    /\ UNCHANGED <<robot_command, events, running, current_cmd, physvars,
                   used, lpc, fetched, reads>>

\* print(...) and the response: lines 36-37, 46-76
HandlerRespond(h) ==
    /\ hs[h].pc = "respond"
    /\ hs' = [hs EXCEPT ![h].pc = "done"]
    /\ UNCHANGED <<robot_command, events, running, current_cmd, physvars,
                   used, command_lock, lpc, fetched, completed, reads>>

\* the window system queues an event while the window is open
WindowEvent(e) ==
    /\ lpc # "done"
    /\ used < MaxLockEvents
    /\ events' = Append(events, e)
    /\ used' = used + 1
    /\ UNCHANGED <<robot_command, running, current_cmd, physvars, lockvars>>

\* "while running:" holds; clock.tick, pygame.event.get()
LoopFetch ==
    /\ lpc = "top"
    /\ LoopContinues(running)
    /\ ticks < MaxLockTicks
    /\ fetched' = events
    /\ events' = <<>>
    /\ reads' = 0
    /\ lpc' = "events"
    /\ UNCHANGED <<robot_command, running, current_cmd, physvars, used,
                   command_lock, hs, completed>>

\* "while running:" fails; pygame.quit()
LoopExit ==
    /\ lpc = "top"
    /\ ~LoopContinues(running)
    /\ lpc' = "done"
    /\ UNCHANGED <<robot_command, events, running, current_cmd, physvars,
                   used, command_lock, fetched, hs, completed, reads>>

\* event.type == pygame.QUIT
LoopQuitEvent ==
    /\ lpc = "events"
    /\ fetched # <<>>
    /\ Head(fetched) = "QUIT"
    /\ running' = FALSE
    /\ fetched' = Tail(fetched)
    /\ UNCHANGED <<robot_command, events, current_cmd, physvars, used,
                   command_lock, lpc, hs, completed, reads>>

\* event.type == pygame.KEYDOWN: "with command_lock:" at line 136
LoopKeyAcquire ==
    /\ lpc = "events"
    /\ fetched # <<>>
    /\ Head(fetched) \in Keys
    /\ LockFree(command_lock)
    /\ command_lock' = command_lock \cup {Sim}
    /\ lpc' = "key_locked"
    /\ UNCHANGED <<robot_command, events, running, current_cmd, physvars,
                   used, fetched, hs, completed, reads>>

\* the if/elif chain on event.key: a known key stores its command and goes
\* on to print, any other key falls through
LoopKeyWrite ==
    /\ lpc = "key_locked"
    /\ robot_command' = KeyCommand(Head(fetched), robot_command)
    /\ lpc' = IF KeyCommand(Head(fetched), Unset) # Unset
              THEN "key_print" ELSE "key_release"
    /\ UNCHANGED <<events, running, current_cmd, physvars, used,
                   command_lock, fetched, hs, completed, reads>>

\* print("Manual: ..."), inside the with block
LoopKeyPrint ==
    /\ lpc = "key_print"
    /\ lpc' = "key_release"
    /\ UNCHANGED <<robot_command, events, running, current_cmd, physvars,
                   used, command_lock, fetched, hs, completed, reads>>

\* the end of the with block at line 136; on to the next event
LoopKeyRelease ==
    /\ lpc = "key_release"
    /\ command_lock' = Released(command_lock, Sim)
    /\ completed' = KeyCommand(Head(fetched), completed)
    /\ fetched' = Tail(fetched)
    /\ lpc' = "events"
    /\ UNCHANGED <<robot_command, events, running, current_cmd, physvars,
                   used, hs, reads>>

\* the for loop is over; "with command_lock:" at line 154
LoopReadAcquire ==
    /\ lpc = "events"
    /\ fetched = <<>>
    /\ LockFree(command_lock)
    /\ command_lock' = command_lock \cup {Sim}
    /\ lpc' = "read_locked"
    /\ UNCHANGED <<robot_command, events, running, current_cmd, physvars,
                   used, fetched, hs, completed, reads>>

\* current_cmd = robot_command
LoopRead ==
    /\ lpc = "read_locked"
    /\ current_cmd' = robot_command
    /\ reads' = reads + 1
    /\ lpc' = "read_release"
    /\ UNCHANGED <<robot_command, events, running, physvars, used,
                   command_lock, fetched, hs, completed>>

\* the end of the with block at line 154
LoopReadRelease ==
    /\ lpc = "read_release"
    /\ command_lock' = Released(command_lock, Sim)
    /\ lpc' = "step"
    /\ UNCHANGED <<robot_command, events, running, current_cmd, physvars,
                   used, fetched, hs, completed, reads>>

\* lines 157-307: the motion step, the trail, drawing and display.flip()
LoopStep ==
    /\ lpc = "step"
    /\ Motion(StepCommand(current_cmd, robot_command))
    /\ lpc' = "top"
    /\ UNCHANGED <<robot_command, events, running, current_cmd, used,
                   command_lock, fetched, hs, completed, reads>>

HandlerNext(h) ==
    \/ HandlerAcquire(h)
    \/ HandlerWrite(h)
    \/ HandlerRead(h)
    \/ HandlerRelease(h)
    \/ HandlerRespond(h)

LoopNext ==
    \/ LoopFetch
    \/ LoopExit
    \/ LoopQuitEvent
    \/ LoopKeyAcquire
    \/ LoopKeyWrite
    \/ LoopKeyPrint
    \/ LoopKeyRelease
    \/ LoopReadAcquire
    \/ LoopRead
    \/ LoopReadRelease
    \/ LoopStep

\* the requests and window events the interleavings are drawn from: two
\* commands and a missing parameter, a known key, an unknown key and QUIT
LockTokens == {"F", "R", NoToken}
LockEvents == {"K_w", "K_ESCAPE", "QUIT"}

NextLock ==
    \/ \E h \in Handlers, tok \in LockTokens : RequestCommand(h, tok)
    \/ \E h \in Handlers : RequestStatus(h)
    \/ \E e \in LockEvents : WindowEvent(e)
    \/ \E h \in Handlers : HandlerNext(h)
    \/ LoopNext

SpecLock == Init /\ [][NextLock]_vars

\* every thread that can take a step eventually takes one: the operating
\* system schedules each runnable thread
SpecLockFair ==
    /\ Init
    /\ [][NextLock]_vars
    /\ WF_vars(LoopNext)
    /\ \A h \in Handlers : WF_vars(HandlerNext(h))

TypeOK ==
    /\ events \in Seq(Events)
    /\ running \in BOOLEAN
    /\ Len(robot_velocity) = 2 /\ Len(robot_pos) = 2
    /\ used \in 0..(MaxInputs + MaxEarly)
    /\ ticks \in 0..MaxBurstTicks
    /\ stopRun \in 0..MaxStopRun

(* ---- properties ---- *)
StartPos == <<(WIDTH \div 2) * Unit, (HEIGHT \div 2) * Unit>>

\* a step that is one iteration of the simulation loop: the only action that
\* leaves the count of inputs alone
TickStep == running /\ used' = used

\* C1: at the end of every tick, under any inputs, each velocity component
\* is at most max_speed in magnitude.
C1_VelocityBounded ==
    \A i \in 1..2 : Abs(robot_velocity[i]) <= max_speed

\* the robot runs at full speed to the right under the command R
C1_Witness ==
    /\ current_cmd = "R"
    /\ robot_velocity[1] = max_speed
    /\ robot_pos[1] > StartPos[1]

\* C2: at the end of every tick the position lies in the arena reduced by
\* the robot's half extent: 20 <= x <= 780 and 20 <= y <= 580.
C2_PositionInArena ==
    \A i \in 1..2 : ArenaMin <= robot_pos[i] /\ robot_pos[i] <= ArenaMax(i)

\* the robot has been clamped to the top or the bottom wall and bounced
C2_Witness ==
    /\ robot_pos[2] \in {ArenaMin, ArenaMax(2)}
    /\ robot_velocity[2] # 0
    /\ current_cmd \in {"F", "B"}

\* C3: the trail never holds more than max_trail points, and a tick either
\* leaves it alone or appends one point at its end, dropping the oldest
\* point exactly when the trail was full.
C3_TrailStep ==
    /\ Len(trail_points') <= max_trail
    /\ \/ trail_points' = trail_points
       \/ /\ Len(trail_points) < max_trail
          /\ Len(trail_points') = Len(trail_points) + 1
          /\ SubSeq(trail_points', 1, Len(trail_points)) = trail_points
       \/ /\ Len(trail_points) = max_trail
          /\ Len(trail_points') = max_trail
          /\ SubSeq(trail_points', 1, max_trail - 1) = Tail(trail_points)

C3_TrailFifo == [][C3_TrailStep]_vars

\* the trail is full and its first recorded point, the start position, has
\* been evicted
C3_Witness ==
    /\ Len(trail_points) = max_trail
    /\ trail_points[1] # StartPos

\* C4: the command store always holds one of F, B, L, R, S; an unrecognized
\* token is stored as Stop.
C4_CommandValid == robot_command \in Valid

\* failing statement of C5 as written: after the 30th Stop tick of the
\* scenario velocity.y is exactly 0.
C5_ZeroBeforeTick30 ==
    (scen[1] = "stop" /\ scen[2] >= 30) => robot_velocity[2] = 0

\* C5 (amended): in the scenario Stop, Forward x 10, Stop x n, each Stop tick
\* moves velocity.y strictly toward 0 without changing its sign; it is still
\* negative after the 30th Stop tick and up to the 44th, and it is exactly 0
\* from the 45th Stop tick on.
C5_ScenarioDecayStep ==
    (TickStep /\ scen'[1] = "stop") =>
        /\ robot_velocity[2] # 0 => robot_velocity[2] < robot_velocity'[2]
        /\ robot_velocity'[2] <= 0
        /\ scen'[2] < 45 => robot_velocity'[2] < 0
        /\ scen'[2] >= 45 => robot_velocity'[2] = 0

C5_ScenarioDecay == [][C5_ScenarioDecayStep]_vars

\* the scenario has run through its 30 Stop ticks, and on to the 45th
C5_Witness ==
    /\ scen = <<"stop", 45>>
    /\ robot_velocity = <<0, 0>>
    /\ robot_pos[2] < StartPos[2]

\* velocity.y after k Forward ticks from rest, and the sum of these
RampVy(k) == -Min(k * acceleration, max_speed)

RECURSIVE SumRampVy(_)
SumRampVy(k) == IF k = 0 THEN 0 ELSE SumRampVy(k - 1) + RampVy(k)

\* C6: in the scenario Stop, Forward x 10, after k Forward ticks velocity.y
\* is -min(0.6 k, 4), so exactly -4 after the 10th; position.y is 300 plus
\* the sum of the velocity.y of the ticks so far; x stays 400 at velocity 0.
C6_ForwardRamp ==
    scen[1] = "fwd" =>
        /\ robot_velocity[2] = RampVy(scen[2])
        /\ scen[2] = 10 => robot_velocity[2] = -max_speed
        /\ robot_pos[2] = StartPos[2] + SumRampVy(scen[2])
        /\ robot_pos[1] = StartPos[1]
        /\ robot_velocity[1] = 0

\* the end of the Forward phase
C6_Witness ==
    /\ scen = <<"fwd", 10>>
    /\ robot_velocity[2] = -max_speed

\* the axes a command drives; a command with no target holds both at 0
Commanded(cmd) ==
    IF TargetVel(cmd) = <<0, 0>> THEN {1, 2}
    ELSE {i \in 1..2 : TargetVel(cmd)[i] # 0}

\* a tick that reads the command of the tick before it, with the velocity
\* of axis i at that command's target
SteadyAt(i) ==
    /\ TickStep
    /\ current_cmd' = current_cmd
    /\ i \in Commanded(current_cmd)
    /\ robot_velocity[i] = TargetVel(current_cmd)[i]

\* failing statement of C7 as written: every such tick leaves the velocity
\* unchanged.
C7_SteadyStep ==
    \A i \in 1..2 : SteadyAt(i) => robot_velocity'[i] = robot_velocity[i]

C7_SteadyAlways == [][C7_SteadyStep]_vars

\* C7 (amended): once the velocity on the commanded axis equals the target,
\* a further tick under the same command leaves it unchanged unless the
\* tick's integrated position reaches or passes an arena edge on that axis;
\* in that case the velocity becomes 0.7 times its magnitude, pointing away
\* from the edge.
C7_SteadyOrBounceStep ==
    \A i \in 1..2 : SteadyAt(i) =>
        LET p == robot_pos[i] + robot_velocity[i]
        IN  /\ (ArenaMin < p /\ p < ArenaMax(i)) =>
                  robot_velocity'[i] = robot_velocity[i]
            /\ p <= ArenaMin =>
                  robot_velocity'[i] = MulRound(Abs(robot_velocity[i]), 7, 10)
            /\ p >= ArenaMax(i) =>
                  robot_velocity'[i] = -MulRound(Abs(robot_velocity[i]), 7, 10)

C7_SteadyOrBounce == [][C7_SteadyOrBounceStep]_vars

\* a second tick at full speed under the same command, away from the walls
C7_Witness ==
    /\ current_cmd = "L"
    /\ robot_velocity[1] = -max_speed
    /\ robot_pos[1] < StartPos[1] - 20 * Unit
    /\ robot_pos[1] > ArenaMin

\* C8: a tick that reads Stop strictly decreases the magnitude of every
\* nonzero velocity component and keeps a zero component at zero; after 45
\* consecutive Stop ticks the velocity is exactly (0,0), and a Stop tick at
\* velocity (0,0) leaves the position where it is.
C8_DecayStep ==
    (TickStep /\ current_cmd' = "S") =>
        /\ \A i \in 1..2 :
              /\ robot_velocity[i] # 0 =>
                    Abs(robot_velocity'[i]) < Abs(robot_velocity[i])
              /\ robot_velocity[i] = 0 => robot_velocity'[i] = 0
        /\ stopRun' >= 45 => robot_velocity' = <<0, 0>>
        /\ robot_velocity = <<0, 0>> => robot_pos' = robot_pos

C8_Decay == [][C8_DecayStep]_vars

\* Stop has brought a robot that was moving on both axes to rest
C8_Witness ==
    /\ current_cmd = "S"
    /\ stopRun >= 45
    /\ robot_velocity = <<0, 0>>
    /\ robot_pos[1] # StartPos[1]
    /\ robot_pos[2] # StartPos[2]

\* C9: in a tick whose velocity after the acceleration/friction step carries
\* an axis past the arena's far edge, the tick ends with the position exactly
\* on that edge and the velocity negative, 0.7 times the magnitude it had
\* after the step; symmetrically, with a positive velocity, at the near edge.
C9_CollisionStep ==
    TickStep =>
        \A i \in 1..2 :
            LET u == StepVelocity(robot_velocity[i], TargetVel(current_cmd')[i])
                p == robot_pos[i] + u
            IN  /\ (u > 0 /\ p > ArenaMax(i)) =>
                      /\ robot_pos'[i] = ArenaMax(i)
                      /\ robot_velocity'[i] < 0
                      /\ robot_velocity'[i] = -MulRound(u, 7, 10)
                /\ (u < 0 /\ p < ArenaMin) =>
                      /\ robot_pos'[i] = ArenaMin
                      /\ robot_velocity'[i] > 0
                      /\ robot_velocity'[i] = MulRound(-u, 7, 10)

C9_Collision == [][C9_CollisionStep]_vars

\* the robot has hit the right wall at full speed and bounced
C9_Witness ==
    /\ robot_pos[1] = ArenaMax(1)
    /\ robot_velocity[1] = -MulRound(max_speed, 7, 10)

Last(q) == q[Len(q)]

\* the tick moved the robot by more than epsilon on some axis
Displaced ==
    \E i \in 1..2 : Abs(robot_pos'[i] - robot_pos[i]) > epsilon

\* failing statement of C10 as written: whenever a tick appends a point, the
\* last trail element is the robot position at the end of that tick.
C10_RecordsNewStep ==
    (TickStep /\ trail_points' # trail_points) =>
        Last(trail_points') = robot_pos'

C10_RecordsNew == [][C10_RecordsNewStep]_vars

\* C10 (amended): a tick appends a point exactly when the tick moved the
\* robot by more than 0.5 on the x axis or on the y axis; the point appended
\* is the position the robot had at the start of the tick; otherwise the
\* trail is left unchanged.
C10_RecordsOldStep ==
    TickStep =>
        IF Displaced
        THEN /\ trail_points' # <<>>
             /\ Last(trail_points') = robot_pos
             /\ Len(trail_points') = Min(Len(trail_points) + 1, max_trail)
        ELSE trail_points' = trail_points

C10_RecordsOld == [][C10_RecordsOldStep]_vars

\* a point has been recorded and the robot has moved on from it
C10_Witness ==
    /\ trail_points # <<>>
    /\ Len(trail_points) < max_trail
    /\ Abs(robot_pos[1] - Last(trail_points)[1]) > epsilon

\* the velocity an axis is expected to have after the velocity step: moved
\* toward a nonzero target by one acceleration step, not past it; decayed by
\* friction, and snapped to 0 below the threshold, when the target is 0
Toward(v, t) ==
    IF v < t THEN Min(t, v + acceleration)
    ELSE IF v > t THEN Max(t, v - acceleration)
    ELSE v

Decayed(v) ==
    IF Abs(MulRound(v, 92, 100)) < snap THEN 0 ELSE MulRound(v, 92, 100)

\* the target of axis i under a command: Forward and Backward drive y,
\* Left and Right drive x, anything else drives nothing
AxisTarget(cmd, i) ==
    CASE cmd = "F" /\ i = 2 -> -max_speed
      [] cmd = "B" /\ i = 2 -> max_speed
      [] cmd = "L" /\ i = 1 -> -max_speed
      [] cmd = "R" /\ i = 1 -> max_speed
      [] OTHER -> 0

\* C11: in every tick each axis is updated from its own previous velocity,
\* its own target and its own position only: an axis with a target moves
\* toward it by one acceleration step, an axis without target decays by
\* friction, whatever the other axis does; the position moves by the new
\* velocity, and an axis reaching an edge is clamped and reflected.
C11_AxisStep ==
    TickStep =>
        \A i \in 1..2 :
            LET t == AxisTarget(current_cmd', i)
                u == IF t # 0 THEN Toward(robot_velocity[i], t)
                              ELSE Decayed(robot_velocity[i])
                p == robot_pos[i] + u
            IN  /\ (ArenaMin < p /\ p < ArenaMax(i)) =>
                      robot_velocity'[i] = u /\ robot_pos'[i] = p
                /\ p <= ArenaMin =>
                      /\ robot_velocity'[i] = MulRound(Abs(u), 7, 10)
                      /\ robot_pos'[i] = ArenaMin
                /\ p >= ArenaMax(i) =>
                      /\ robot_velocity'[i] = -MulRound(Abs(u), 7, 10)
                      /\ robot_pos'[i] = ArenaMax(i)

C11_AxisIndependence == [][C11_AxisStep]_vars

\* Forward, Left, Forward on three consecutive ticks from rest: x went
\* 0, -0.6, -0.552 and y went -0.6, -0.552, -1.152
C11_Witness ==
    /\ current_cmd = "F"
    /\ robot_velocity = <<-552, -1152>>
    /\ robot_pos = <<StartPos[1] - 600 - 552, StartPos[2] - 600 - 552 - 1152>>

\* the events of a queue
Queued(q) == {q[k] : k \in 1..Len(q)}

\* C15: a tick that drains a key press of ESC ends the loop.
C15_EscQuitsStep ==
    (TickStep /\ "K_ESCAPE" \in Queued(events)) => ~running'

C15_EscQuits == [][C15_EscQuitsStep]_vars

\* failing statement of C18 as written: the velocity of an axis is reflected
\* only if the integrated position lies beyond an edge; a tick landing
\* exactly on an edge leaves that axis's velocity as the velocity step made it.
C18_ReflectOnlyBeyondStep ==
    TickStep =>
        \A i \in 1..2 :
            LET u == StepVelocity(robot_velocity[i],
                                  TargetVel(current_cmd')[i])
                p == robot_pos[i] + u
            IN  (ArenaMin <= p /\ p <= ArenaMax(i)) =>
                    robot_velocity'[i] = u /\ robot_pos'[i] = p

C18_ReflectOnlyBeyond == [][C18_ReflectOnlyBeyondStep]_vars

\* C18 (amended): the velocity of an axis is reflected and scaled by 0.7
\* exactly when the integrated position reaches or passes an edge; a tick
\* landing exactly on an edge keeps the position on the edge and reflects
\* the velocity; strictly inside, position and velocity are left as
\* integrated.
C18_ReflectAtOrBeyondStep ==
    TickStep =>
        \A i \in 1..2 :
            LET u == StepVelocity(robot_velocity[i],
                                  TargetVel(current_cmd')[i])
                p == robot_pos[i] + u
            IN  /\ (ArenaMin < p /\ p < ArenaMax(i)) =>
                      robot_velocity'[i] = u /\ robot_pos'[i] = p
                /\ p <= ArenaMin =>
                      /\ robot_velocity'[i] = MulRound(Abs(u), 7, 10)
                      /\ robot_pos'[i] = ArenaMin
                /\ p >= ArenaMax(i) =>
                      /\ robot_velocity'[i] = -MulRound(Abs(u), 7, 10)
                      /\ robot_pos'[i] = ArenaMax(i)

C18_ReflectAtOrBeyond == [][C18_ReflectAtOrBeyondStep]_vars

\* the robot came from x = 776 at velocity 4, landed exactly on 780 and was
\* reflected
C18_Witness ==
    /\ robot_pos[1] = ArenaMax(1)
    /\ robot_velocity[1] = -MulRound(max_speed, 7, 10)
    /\ trail_points # <<>>
    /\ Last(trail_points)[1] = ArenaMax(1) - max_speed

\* velocity, position and trail at the end of a tick that reads cmd in the
\* current state
TickResult(cmd) ==
    LET tv == TargetVel(cmd)
        v1 == [i \in 1..2 |-> StepVelocity(robot_velocity[i], tv[i])]
        c  == [i \in 1..2 |-> Collide(robot_pos[i] + v1[i], v1[i],
                                      ArenaMin, ArenaMax(i))]
        new == [i \in 1..2 |-> c[i][1]]
    IN  <<[i \in 1..2 |-> c[i][2]], new,
          RecordTrail(trail_points, robot_pos, new)>>

\* C19: a tick that reads a command outside F, B, L, R ends with the
\* velocity, position and trail a tick reading Stop would have given.
C19_UnknownAsStopStep ==
    (TickStep /\ current_cmd' \notin {"F", "B", "L", "R"}) =>
        <<robot_velocity', robot_pos', trail_points'>> = TickResult("S")

C19_UnknownAsStop == [][C19_UnknownAsStopStep]_vars

\* a moving robot is slowing down under the unrecognized command X
C19_Witness ==
    /\ current_cmd = "X"
    /\ robot_velocity # <<0, 0>>

\* C20: at the end of every tick the velocity of an axis whose position is
\* on an edge does not point out of the arena: not negative on the near
\* edge, not positive on the far edge.
C20_InwardAtWall ==
    \A i \in 1..2 :
        /\ robot_pos[i] = ArenaMin => robot_velocity[i] >= 0
        /\ robot_pos[i] = ArenaMax(i) => robot_velocity[i] <= 0

\* a robot held against the left wall by Left has been re-clamped: it sits
\* on the wall with the small inward velocity the bounce leaves
C20_Witness ==
    /\ current_cmd = "L"
    /\ robot_pos[1] = ArenaMin
    /\ robot_velocity[1] > 0
    /\ robot_velocity[1] < acceleration

\* the threads inside a "with command_lock:" block
InBlock ==
    {h \in Handlers : hs[h].pc \in {"locked", "release"}}
    \cup (IF lpc \in {"key_locked", "key_print", "key_release",
                      "read_locked", "read_release"}
          THEN {Sim} ELSE {})

\* C12: reads and writes of the command store exclude each other, and every
\* read - the tick's and the status page's - returns the value of the most
\* recent write whose critical section has ended (Stop if there was none),
\* under any interleaving of requests, key presses and ticks.
C12_LastWriteWins ==
    /\ Cardinality(InBlock) <= 1
    /\ InBlock = command_lock
    /\ lpc = "read_release" => current_cmd = completed
    /\ \A h \in Handlers :
          (hs[h].pc = "release" /\ hs[h].kind = "status") =>
              hs[h].seen = completed

\* two requests have written different commands one after the other and the
\* tick has just read the later one
C12_Witness ==
    /\ lpc = "read_release"
    /\ \A h \in Handlers : hs[h].pc = "done" /\ hs[h].kind = "command"
    /\ hs[1].cmd = "F"
    /\ hs[MaxHandlers].cmd = "R"
    /\ current_cmd = "R"

\* C13: when the tick reads the command, every event it fetched has been
\* handled and its write is complete; the tick reads the command once; the
\* motion step works from the value read, so a write landing after the read
\* leaves this tick's velocity, position and trail as that value gives them.
C13_TickOrderStep ==
    /\ lpc' \in {"read_locked", "read_release", "step"} => fetched' = <<>>
    /\ lpc' \in {"read_release", "step"} => reads' = 1
    /\ (lpc = "step" /\ lpc' = "top") =>
          /\ reads = 1
          /\ <<robot_velocity', robot_pos', trail_points'>>
                = TickResult(current_cmd)

C13_TickOrder == [][C13_TickOrderStep]_vars

\* the tick has read Stop, and a request has stored Right before the
\* motion step of that tick
C13_Witness ==
    /\ lpc = "step"
    /\ reads = 1
    /\ current_cmd = "S"
    /\ robot_command = "R"
    /\ completed = "R"

\* C14: once a QUIT event has been handled the loop starts no further tick
\* and terminates, and a terminated loop does not hold the command lock.
C14_QuitTerminates ==
    /\ [][(~running /\ lpc = "top") => lpc' # "events"]_vars
    /\ [](lpc = "done" => Sim \notin command_lock)
    /\ (~running ~> lpc = "done")

\* the loop has terminated and a request thread is inside its critical
\* section
C14_Witness ==
    /\ lpc = "done"
    /\ ~running
    /\ \E h \in Handlers : hs[h].pc = "locked" /\ command_lock = {h}

\* C16: every thread that acquires the command lock releases it, every
\* request that has begun is answered, and every tick the loop starts
\* completes.
C16_NeverBlocks ==
    /\ \A t \in Handlers \cup {Sim} :
          (t \in command_lock) ~> (t \notin command_lock)
    /\ \A h \in Handlers : (hs[h].pc # "idle") ~> (hs[h].pc = "done")
    /\ (lpc \notin {"top", "done"}) ~> (lpc = "top")

\* a tick has completed while a request thread was waiting for the lock
C16_Witness ==
    /\ lpc = "top"
    /\ ticks > 0
    /\ \E h \in Handlers : hs[h].pc = "acquire"

\* C17: no thread is at a print while it holds the command lock.
C17_NoOutputInLock ==
    /\ lpc = "key_print" => Sim \notin command_lock
    /\ \A h \in Handlers : hs[h].pc = "respond" => h \notin command_lock

====
